---- MODULE Spec2Model ----
(***************************************************************************)
(* The epacog state-update engine (EpistemicState) with its pluggable      *)
(* threshold, realignment, rupture-policy and collapse callables.          *)
(* Spec is one engine under receive and reset; SpecPair is two engines     *)
(* built alike and fed the same signals; SpecCalls is the built rupture    *)
(* policies, the collapse models and the drift-map labelling called        *)
(* directly; SpecSim is the simulation driver run on an engine;            *)
(* SpecObserve adds the read-only operations to Spec; SpecReplay resets an *)
(* engine and replays signals through it and a fresh engine; SpecPeers is  *)
(* a policy holding a peer engine that goes on running.                    *)
(*                                                                         *)
(* Floating-point values are fixed-point integers: the real number x is    *)
(* the integer x * Scale, so 0.35 is 350 and 1.0 is 1000.  A product of    *)
(* two reals is Mul, which rounds down to the grid.  A Python call is      *)
(* modelled with its arity: a callable that does not accept the number of  *)
(* positional arguments it is given raises TypeError.  A Gaussian sample   *)
(* is a nondeterministic choice from a small symmetric set.                *)
(***************************************************************************)
EXTENDS Integers, Sequences, FiniteSets, TLC

VARIABLES V, E, history, time, collapse_type,
          realign_fn, rupture_policy, threshold_fn, config,
          call, twin, direct, sim

vars == <<V, E, history, time, collapse_type,
          realign_fn, rupture_policy, threshold_fn, config, call,
          twin, direct, sim>>

\* Fixed-point resolution: one unit is 0.001.
Scale == 10 * 100

\* Longest run of receive calls between two resets.
MaxSteps == 3

\* Longest run of receive calls of a pair of engines that draw random numbers.
MaxNoisySteps == 2

\* Longest trace handed to symbolize_drift_regions.
MaxTrace == 3
MaxEvals == 2

(***************************************************************************)
(* Arithmetic                                                              *)
(***************************************************************************)
\* The signed difference taken for the distortion.
Abs_signed(x) == x

Abs(x) == IF x < 0 THEN -x ELSE x

Mul(x, y) == (x * y) \div Scale

Quot(x, y) == (x * Scale) \div y

\* A Python int used where a float is expected (t as a projection value).
ToFloat(n) == n * Scale

\* Samples of numpy.random.normal(0, sigma): exactly 0 when sigma is 0.
Normal(sigma) == IF sigma = 0 THEN {0} ELSE {-sigma, 0, sigma}

(***************************************************************************)
(* Python values                                                           *)
(***************************************************************************)
None == [some |-> FALSE, val |-> 0]

Some(x) == [some |-> TRUE, val |-> x]

EmptyDict == [key \in {} |-> 0]

\* dict.get(key, default)
Get(d, key, default) == IF key \in DOMAIN d THEN d[key] ELSE default

\* `config or {}` of a config argument that may be None
OrEmpty(cfg) == IF cfg.some THEN cfg.val ELSE EmptyDict

\* Does a callable with this signature accept n positional arguments?
Accepts(sig, n) == n >= sig.min /\ (sig.star \/ n <= sig.max)

(***************************************************************************)
(* Defaults of the engine and of the collapse models                       *)
(***************************************************************************)
DefaultTheta0 == 350
DefaultA == 50
DefaultSigmaTheta == 25
DefaultK == 300
DefaultC == 100
DefaultB == 300
DefaultDecayRate == 500
DefaultSigmaCollapse == 500

\* Positional arguments the engine passes to each injected callable.
EngineThresholdArgs == 5
EnginePolicyArgs == 7
EngineRealignArgs == 6
EngineHookArgs == 3

(***************************************************************************)
(* Threshold functions (rupture/volatility.py and the tests' lambdas)      *)
(***************************************************************************)
theta_linear_growth(delta, mem, cfg) ==
    Get(OrEmpty(cfg), "theta0", DefaultTheta0)
        + Mul(Get(OrEmpty(cfg), "a", DefaultA), mem)

theta_stochastic_noise(delta, mem, cfg, noise) ==
    Get(OrEmpty(cfg), "theta0", DefaultTheta0)
        + Mul(Get(OrEmpty(cfg), "a", DefaultA), mem) + noise

theta_saturating(delta, mem, cfg) ==
    Get(OrEmpty(cfg), "theta0", DefaultTheta0)
        + Quot(Mul(Get(OrEmpty(cfg), "a", DefaultA), mem),
               Scale + Mul(Get(OrEmpty(cfg), "b", DefaultB), mem))

RECURSIVE SeqSum(_)
SeqSum(q) == IF q = <<>> THEN 0 ELSE Head(q) + SeqSum(Tail(q))

\* sum(peer_thetas) / len(peer_thetas)
Mean(q) == SeqSum(q) \div Len(q)

\* A reference to the peer engine held in a list of peer states, with the
\* memory the engine had when the reference was taken.
PeerRef(e) == [ref |-> "twin", E |-> e]

\* The memory a peer had when the list of peers was made.
PeerE_at_build(peer) == peer.E

\* peer.E of a peer state: the attribute is read from the object at the call.
PeerE(peer) == IF "ref" \in DOMAIN peer THEN twin.E ELSE peer.E

\* theta0 + a*E + c*avg(peer.E); the peer term is 0 with no peers.
theta_from_coupled_field(delta, mem, cfg) ==
    LET peer_states == Get(OrEmpty(cfg), "peer_states", <<>>)
        peer_Es == [i \in 1..Len(peer_states) |-> PeerE(peer_states[i])]
        avg_peer_E == IF peer_Es # <<>> THEN Mean(peer_Es) ELSE 0
    IN  Get(OrEmpty(cfg), "theta0", DefaultTheta0)
            + Mul(Get(OrEmpty(cfg), "a", DefaultA), mem)
            + Mul(Get(OrEmpty(cfg), "c", DefaultC), avg_peer_E)

NamedThetas ==
    {"theta_linear_growth", "theta_stochastic_noise",
     "theta_saturating", "theta_from_coupled_field"}

\* The tests' thresholds take *args and return a constant.
StarThetas == {"fixed_threshold", "lambda_high", "lambda_low"}

ThresholdSig(fn) ==
    IF fn \in StarThetas
    THEN [min |-> 0, max |-> 0, star |-> TRUE]
    ELSE [min |-> 2, max |-> 3, star |-> FALSE]

StarThetaValue(fn) ==
    CASE fn = "fixed_threshold" -> 500
      [] fn = "lambda_high" -> 1000
      [] fn = "lambda_low" -> 10

(***************************************************************************)
(* Rupture policies                                                        *)
(***************************************************************************)
BuiltStrategies == {"threshold", "consensus", "stochastic", "hybrid"}

\* build_rupture_policy(strategy=s) and rupture_policy_default take
\* (V, R, delta, E, t, config=None); user_policy is a caller's callable with
\* the engine's seven parameters.
PolicySig(p) ==
    IF p = "user_policy"
    THEN [min |-> 7, max |-> 7, star |-> FALSE]
    ELSE [min |-> 5, max |-> 6, star |-> FALSE]

\* lambda V, R, delta, E, theta, t, config: delta >= theta
user_policy(Vp, R, delta, mem, theta, t, cfg) == delta >= theta

\* The theta_fn of a built policy, called as theta_fn(delta, E, config):
\* default_theta of the builder, the tests' lambdas, or a named threshold.
PolicyThetas ==
    {"default_theta", "lambda_half", "lambda_half_plus_half_E",
     "theta_linear_growth"}

PolicyTheta(fn, delta, mem, cfg, noise) ==
    CASE fn = "default_theta" ->
             Get(cfg, "theta0", DefaultTheta0)
                 + Mul(Get(cfg, "a", DefaultA), mem) + noise
      [] fn = "lambda_half" -> 500
      [] fn = "lambda_half_plus_half_E" -> 500 + Mul(500, mem)
      [] fn = "theta_linear_growth" -> theta_linear_growth(delta, mem, Some(cfg))

PolicyThetaDraws(fn, cfg) ==
    IF fn = "default_theta"
    THEN Normal(Get(cfg, "sigma_theta", DefaultSigmaTheta))
    ELSE {0}

\* The peers' thresholds computed at the caller's own memory.
PeerThetas_own_memory(pol, delta, mem, cfg, noises) ==
    [i \in 1..Len(pol.peer_states) |->
        PolicyTheta(pol.theta_fn, delta, mem, cfg, noises[i])]

\* [theta_fn(delta, peer.E, config) for peer in peer_states]
PeerThetas(pol, delta, mem, cfg, noises) ==
    [i \in 1..Len(pol.peer_states) |->
        PolicyTheta(pol.theta_fn, delta, PeerE(pol.peer_states[i]), cfg, noises[i])]

\* A sigmoid that rounds to exactly 1 from z = 5 on.
Sigmoid_saturated(z) ==
    LET n == z \div Scale
        table == <<2, 7, 18, 47, 119, 269, 500, 731, 881, 953, 982>>
    IN  IF n >= 5 THEN Scale ELSE IF n <= -7 THEN 1 ELSE table[n + 7]

\* 1 / (1 + exp(-z)) on the grid, z rounded down to a whole number; the
\* float result is strictly between 0 and 1 for the |z| that occur.
Sigmoid(z) ==
    LET n == z \div Scale
        table == <<2, 7, 18, 47, 119, 269, 500, 731, 881, 953, 982, 993, 998>>
    IN  IF n >= 7 THEN 999 ELSE IF n <= -7 THEN 1 ELSE table[n + 7]

\* Samples of numpy.random.rand(), uniform on [0, 1).
UniformDraws == {0, 250, 500, 750, 999}

\* lambda V, R, d, E, t, c: d > 0.4
hybrid_custom(Vp, R, delta, mem, t, cfg) == delta > 400

\* lambda *args: 0.5
probability_half(Vp, R, delta, mem, t, cfg) == 500

\* An unsupported strategy rejected with an exception.
PolicyFallback_raises == [raised |-> "ValueError", value |-> FALSE]

\* The final `return False` of a built policy.
PolicyFallback == [raised |-> "none", value |-> FALSE]

\* The closure returned by build_rupture_policy(strategy, theta_fn,
\* peer_states, probability_fn, hybrid_fn), called as
\* rupture_fn(V, R, delta, E, t, config): [raised, value].
rupture_fn(pol, Vp, R, delta, mem, t, config0, noises, u) ==
    LET cfg == OrEmpty(config0)
    IN  IF pol.strategy = "threshold"
        THEN [raised |-> "none",
              value |-> delta > PolicyTheta(pol.theta_fn, delta, mem, cfg, noises[1])]
        ELSE IF pol.strategy = "consensus"
        THEN IF pol.peer_states = <<>>
             THEN [raised |-> "none", value |-> FALSE]
             ELSE [raised |-> "none",
                   value |-> delta > Mean(PeerThetas(pol, delta, mem, cfg, noises))]
        ELSE IF pol.strategy = "stochastic"
        THEN LET risk == delta - PolicyTheta(pol.theta_fn, delta, mem, cfg, noises[1])
                 prob == IF pol.probability_fn # "None"
                         THEN probability_half(Vp, R, delta, mem, t, cfg)
                         ELSE Sigmoid(Mul(risk, Get(cfg, "slope", 10 * Scale)))
             IN  [raised |-> "none", value |-> u < prob]
        ELSE IF pol.strategy = "hybrid" /\ pol.hybrid_fn # "None"
        THEN [raised |-> "none",
              value |-> hybrid_custom(Vp, R, delta, mem, t, cfg)]
        ELSE PolicyFallback

(***************************************************************************)
(* Realignment functions                                                   *)
(***************************************************************************)
realign_linear(Vp, R, delta, mem, t, cfg) ==
    Vp + Mul(Mul(Get(OrEmpty(cfg), "k", DefaultK), delta), Scale + mem)

\* tests: V + 0.1 * delta
mock_realign(Vp, R, delta, mem, t, cfg) == Vp + Mul(100, delta)

RealignSig(fn) ==
    IF fn = "mock_realign"
    THEN [min |-> 6, max |-> 6, star |-> FALSE]
    ELSE [min |-> 5, max |-> 6, star |-> FALSE]

(***************************************************************************)
(* Collapse models: each returns [raised, V, E]                            *)
(***************************************************************************)
collapse_reset(Vp, mem, R, t, cfg) == [raised |-> "none", V |-> 0, E |-> 0]

collapse_soft_decay(Vp, mem, R, t, cfg) ==
    [raised |-> "none", V |-> 0,
     E |-> Mul(mem, Get(OrEmpty(cfg), "decay_rate", DefaultDecayRate))]

\* A collapse that keeps the current projection when no signal is given.
collapse_adopt_R_keeps_V(Vp, mem, R, t, cfg) ==
    [raised |-> "none", V |-> IF R.some THEN R.val ELSE Vp, E |-> 0]

collapse_adopt_R(Vp, mem, R, t, cfg) ==
    IF ~R.some
    THEN [raised |-> "ValueError", V |-> 0, E |-> 0]
    ELSE [raised |-> "none", V |-> R.val, E |-> 0]

collapse_randomized(Vp, mem, R, t, cfg, draw) ==
    [raised |-> "none", V |-> draw, E |-> 0]

\* A caller's hook that raises whatever it is given.
raising_hook(Vp, mem, R, t, cfg) ==
    [raised |-> "RuntimeError", V |-> Vp, E |-> mem]

CollapseDraws(cfg) == Normal(Get(OrEmpty(cfg), "sigma_collapse", DefaultSigmaCollapse))

CollapseCall(fn, Vp, mem, R, t, cfg, draw) ==
    CASE fn = "collapse_reset" -> collapse_reset(Vp, mem, R, t, cfg)
      [] fn = "collapse_soft_decay" -> collapse_soft_decay(Vp, mem, R, t, cfg)
      [] fn = "collapse_adopt_R" -> collapse_adopt_R(Vp, mem, R, t, cfg)
      [] fn = "collapse_randomized" -> collapse_randomized(Vp, mem, R, t, cfg, draw)
      [] fn = "raising_hook" -> raising_hook(Vp, mem, R, t, cfg)

\* A hook is a collapse model, plain or wrapped by collapse_symbolic(fn, label).
\* The call's result: a pair (isDict FALSE) or a mapping {V, E, type}.
HookCall(hook, Vp, mem, R, t, cfg, draw) ==
    LET base == CollapseCall(hook.fn, Vp, mem, R, t, cfg, draw)
    IN  [raised |-> base.raised, isDict |-> hook.wrapped,
         V |-> base.V, E |-> base.E,
         type |-> IF hook.wrapped THEN hook.label ELSE "None"]

HookSig == [min |-> 2, max |-> 5, star |-> FALSE]

(***************************************************************************)
(* Inputs: the engines that are constructed and the values they are fed    *)
(***************************************************************************)
CollapseFns ==
    {"collapse_reset", "collapse_soft_decay", "collapse_adopt_R", "collapse_randomized"}

Plain(f) == [fn |-> f, wrapped |-> FALSE, label |-> "None"]

\* collapse_symbolic(fn, label); the label defaults to "unspecified".
Symbolic(f, l) == [fn |-> f, wrapped |-> TRUE, label |-> l]

Hooks ==
    {Plain(f) : f \in CollapseFns}
        \cup {Symbolic("collapse_reset", "reset"),
              Symbolic("collapse_soft_decay", "soft"),
              Symbolic("collapse_adopt_R", "unspecified")}

TestConfig == [theta0 |-> 200, a |-> 0, sigma_theta |-> 0]

BaseConfigs ==
    {EmptyDict, [sigma_theta |-> 0], TestConfig,
     [theta0 |-> 200, a |-> 100, sigma_theta |-> 0, k |-> 500, c |-> 200]}

HookConfigs ==
    {[theta0 |-> 200, a |-> 0, sigma_theta |-> 0, rupture_reset_fn |-> h] : h \in Hooks}

RaisingHookConfig ==
    [theta0 |-> 200, a |-> 0, sigma_theta |-> 0,
     rupture_reset_fn |-> Plain("raising_hook")]

Policies == BuiltStrategies \cup {"rupture_policy_default", "user_policy"}

Realigns == {"mock_realign", "realign_linear", "realign_custom_template"}

Engine(p, r, t, c) ==
    [rupture_policy |-> p, realign_fn |-> r, threshold_fn |-> t, config |-> c]

Engines ==
    {Engine("None", "None", "None", c) : c \in BaseConfigs \cup HookConfigs}
        \cup {Engine("None", r, t, EmptyDict) :
                 r \in Realigns \cup {"None"}, t \in StarThetas}
        \cup {Engine("None", "None", t, TestConfig) : t \in NamedThetas}
        \cup {Engine(p, "None", "None", TestConfig) : p \in Policies}
        \cup {Engine("user_policy", "None", "None", c) : c \in HookConfigs}
        \cup {Engine("None", "None", "None", RaisingHookConfig)}
        \cup {Engine("threshold", "realign_linear", "theta_linear_growth", EmptyDict),
              Engine("threshold", "realign_linear", "fixed_threshold", EmptyDict)}

\* Policies built by build_rupture_policy and called directly, as the tests do.
DummyState(e) == [E |-> e]

PeerLists == {<<>>, <<DummyState(100), DummyState(200)>>, <<DummyState(900)>>}

Closure(s, th, peers, pf, hf) ==
    [strategy |-> s, theta_fn |-> th, peer_states |-> peers,
     probability_fn |-> pf, hybrid_fn |-> hf]

PolicyClosures ==
    {Closure(s, th, <<>>, "None", "None") :
         s \in {"threshold", "majority"}, th \in PolicyThetas}
        \cup {Closure("consensus", th, peers, "None", "None") :
                 th \in PolicyThetas, peers \in PeerLists}
        \cup {Closure("stochastic", th, <<>>, pf, "None") :
                 th \in {"lambda_half", "default_theta"},
                 pf \in {"None", "probability_half"}}
        \cup {Closure("hybrid", "default_theta", <<>>, "None", hf) :
                 hf \in {"None", "hybrid_custom"}}

PolicyDeltas == {100, 500, 575, 576, 1000}

PolicyMemories == {0, 100, 900}

PolicyConfigs == {None, Some(EmptyDict), Some(TestConfig), Some([slope |-> 10 * Scale])}

\* (V0, E0) given to the constructor and to reset.
InitValues == {<<0, 0>>, <<1200, 900>>}

ResetValues == {<<0, 0>>, <<500, 200>>}

Signals == {100, 200, 1000, -500}

(***************************************************************************)
(* EpistemicState                                                          *)
(***************************************************************************)
NoCall ==
    [op |-> "init", R |-> 0, V0 |-> 0, E0 |-> 0,
     V_prev |-> 0, E_prev |-> 0, t_prev |-> 0, ct_prev |-> "None",
     raised |-> "none", noise |-> 0, draw |-> 0]

\* No second engine, no direct call of a library function, no driver run.
NoTwin == [V |-> 0, E |-> 0, history |-> <<>>, time |-> 0, collapse_type |-> "None"]

NoDirect == [op |-> "none"]

NoSim ==
    [status |-> "idle", t |-> 0, steps |-> 0,
     signal |-> [kind |-> "list", items |-> <<>>],
     collapse_fn |-> [fn |-> "None", wrapped |-> FALSE, label |-> "None"],
     trace |-> <<>>, outputs |-> <<>>, raised |-> "none"]

\* __init__
Init ==
    \E v \in InitValues, e \in Engines :
        /\ twin = NoTwin
        /\ direct = NoDirect
        /\ sim = NoSim
        /\ V = v[1]
        /\ E = v[2]
        /\ history = <<>>
        /\ realign_fn = e.realign_fn
        /\ rupture_policy = e.rupture_policy
        /\ threshold_fn = e.threshold_fn
        /\ config = e.config
        /\ time = 0
        /\ collapse_type = "None"
        /\ call = NoCall

\* The fields of one engine that receive and reset write.
Self ==
    [V |-> V, E |-> E, history |-> history, time |-> time,
     collapse_type |-> collapse_type]

\* _resolve_threshold: [raised, value]
resolve_threshold(s, delta, noise) ==
    IF threshold_fn # "None"
    THEN IF Accepts(ThresholdSig(threshold_fn), EngineThresholdArgs)
         THEN [raised |-> "none",
               value |-> IF threshold_fn \in StarThetas
                         THEN StarThetaValue(threshold_fn) ELSE 0]
         ELSE [raised |-> "TypeError", value |-> 0]
    ELSE [raised |-> "none",
          value |-> Get(config, "theta0", DefaultTheta0)
                      + Mul(Get(config, "a", DefaultA), s.E) + noise]

\* The default threshold drawing its noise with the default sigma, whatever
\* the config says.
ThresholdDraws_default_sigma ==
    IF threshold_fn # "None" THEN {0} ELSE Normal(DefaultSigmaTheta)

\* The noise the default threshold draws (none when a threshold_fn is injected).
ThresholdDraws ==
    IF threshold_fn # "None" THEN {0}
    ELSE Normal(Get(config, "sigma_theta", DefaultSigmaTheta))

\* The default rule with the boundary on the wrong side.
DefaultRupture_geq(delta, theta) == delta >= theta

DefaultRupture(delta, theta) == delta > theta

\* receive, lines 55-58: the rupture decision, [raised, value]
decide_rupture(s, V_prev, R, delta, theta) ==
    IF rupture_policy # "None"
    THEN IF Accepts(PolicySig(rupture_policy), EnginePolicyArgs)
         THEN [raised |-> "none",
               value |-> user_policy(V_prev, R, delta, s.E, theta, s.time,
                                     Some(config))]
         ELSE [raised |-> "TypeError", value |-> FALSE]
    ELSE [raised |-> "none", value |-> DefaultRupture(delta, theta)]

\* The third positional argument the engine hands to the collapse hook.
HookThirdArg(s) == Some(ToFloat(s.time))

HookDraws ==
    IF "rupture_reset_fn" \in DOMAIN config
           /\ config.rupture_reset_fn.fn = "collapse_randomized"
    THEN CollapseDraws(None) ELSE {0}

\* The built-in reset leaving the accumulated memory in place.
rupture_reset_keeps_memory(s, draw) ==
    IF "rupture_reset_fn" \in DOMAIN config
    THEN LET result == HookCall(config.rupture_reset_fn, s.V, s.E,
                                HookThirdArg(s), None, None, draw)
         IN  [raised |-> result.raised, V |-> result.V, E |-> result.E,
              collapse_type |-> result.type]
    ELSE [raised |-> "none", V |-> 0, E |-> s.E, collapse_type |-> "default"]

\* The collapse of the older engine (src/epistemic_state.py): the hook's
\* result is unpacked as a pair and its label is dropped.
rupture_reset_drops_label(s, draw) ==
    IF "rupture_reset_fn" \in DOMAIN config
    THEN LET result == HookCall(config.rupture_reset_fn, s.V, s.E,
                                HookThirdArg(s), None, None, draw)
         IN  [raised |-> result.raised, V |-> result.V, E |-> result.E,
              collapse_type |-> "None"]
    ELSE [raised |-> "none", V |-> 0, E |-> 0, collapse_type |-> "default"]

\* _rupture_reset: [raised, V, E, collapse_type]
rupture_reset(s, draw) ==
    IF "rupture_reset_fn" \in DOMAIN config
    THEN LET result == HookCall(config.rupture_reset_fn, s.V, s.E,
                                HookThirdArg(s), None, None, draw)
         IN  IF ~Accepts(HookSig, EngineHookArgs)
             THEN [raised |-> "TypeError", V |-> s.V, E |-> s.E,
                   collapse_type |-> s.collapse_type]
             ELSE IF result.raised # "none"
             THEN [raised |-> result.raised, V |-> s.V, E |-> s.E,
                   collapse_type |-> s.collapse_type]
             ELSE IF result.isDict
             THEN [raised |-> "none", V |-> result.V, E |-> result.E,
                   collapse_type |-> result.type]
             ELSE [raised |-> "none", V |-> result.V, E |-> result.E,
                   collapse_type |-> "None"]
    ELSE [raised |-> "none", V |-> 0, E |-> 0, collapse_type |-> "default"]

\* The value a realign_fn returns (realign_custom_template raises instead).
RealignCall(fn, Vp, R, delta, mem, t, cfg) ==
    IF fn = "mock_realign"
    THEN mock_realign(Vp, R, delta, mem, t, cfg)
    ELSE realign_linear(Vp, R, delta, mem, t, cfg)

\* The memory updated before the projection, which then reads the new memory.
realign_memory_first(s, delta, R) ==
    LET newE == s.E + Mul(Get(config, "c", DefaultC), delta)
    IN  IF realign_fn # "None"
        THEN IF realign_fn = "realign_custom_template"
             THEN [raised |-> "NotImplementedError", V |-> s.V, E |-> s.E]
             ELSE [raised |-> "none",
                   V |-> RealignCall(realign_fn, s.V, R, delta, newE, s.time,
                                     Some(config)),
                   E |-> newE]
        ELSE [raised |-> "none",
              V |-> s.V + Mul(Mul(Get(config, "k", DefaultK), delta), Scale + newE),
              E |-> newE]

\* A template that returns the projection it was given instead of raising.
realign_silent_template(s, delta, R) ==
    LET newE == s.E + Mul(Get(config, "c", DefaultC), delta)
    IN  IF realign_fn # "None"
        THEN IF realign_fn = "realign_custom_template"
             THEN [raised |-> "none", V |-> s.V, E |-> newE]
             ELSE [raised |-> "none",
                   V |-> RealignCall(realign_fn, s.V, R, delta, s.E, s.time,
                                     Some(config)),
                   E |-> newE]
        ELSE [raised |-> "none",
              V |-> s.V + Mul(Mul(Get(config, "k", DefaultK), delta), Scale + s.E),
              E |-> newE]

\* _realign: [raised, V, E]
realign(s, delta, R) ==
    LET newE == s.E + Mul(Get(config, "c", DefaultC), delta)
    IN  IF realign_fn # "None"
        THEN IF ~Accepts(RealignSig(realign_fn), EngineRealignArgs)
             THEN [raised |-> "TypeError", V |-> s.V, E |-> s.E]
             ELSE IF realign_fn = "realign_custom_template"
             THEN [raised |-> "NotImplementedError", V |-> s.V, E |-> s.E]
             ELSE [raised |-> "none",
                   V |-> RealignCall(realign_fn, s.V, R, delta, s.E, s.time,
                                     Some(config)),
                   E |-> newE]
        ELSE [raised |-> "none",
              V |-> s.V + Mul(Mul(Get(config, "k", DefaultK), delta), Scale + s.E),
              E |-> newE]

Snapshot(t, v, R, delta, theta, ruptured, ct) ==
    [t |-> t, V |-> v, R |-> R, delta |-> delta, theta |-> theta,
     ruptured |-> ruptured, collapse_type |-> ct]

\* A rupture that starts the trace afresh instead of appending to it.
AppendSnapshot_restart(h, s) == IF s.ruptured THEN <<s>> ELSE Append(h, s)

\* history.append(...)
AppendSnapshot(h, s) == Append(h, s)

\* An exception that leaves the step counted.
Unchanged_counts_step(s, raised) ==
    [raised |-> raised, V |-> s.V, E |-> s.E, collapse_type |-> s.collapse_type,
     history |-> s.history, time |-> s.time + 1]

Unchanged(s, raised) ==
    [raised |-> raised, V |-> s.V, E |-> s.E, collapse_type |-> s.collapse_type,
     history |-> s.history, time |-> s.time]

\* A receive that evaluates the threshold a second time for the snapshot,
\* after the step's update.
receive_reprobes(s, R, noise, draw) ==
    LET V_prev == s.V
        delta == Abs(R - V_prev)
        theta == resolve_threshold(s, delta, noise)
        rupture == decide_rupture(s, V_prev, R, delta, theta.value)
        upd == IF rupture.value
               THEN rupture_reset(s, draw)
               ELSE [collapse_type |-> s.collapse_type] @@ realign(s, delta, R)
        again == resolve_threshold([s EXCEPT !.V = upd.V, !.E = upd.E],
                                   Abs(R - upd.V), noise)
    IN  IF theta.raised # "none" THEN Unchanged(s, theta.raised)
        ELSE IF rupture.raised # "none" THEN Unchanged(s, rupture.raised)
        ELSE IF upd.raised # "none" THEN Unchanged(s, upd.raised)
        ELSE [raised |-> "none", V |-> upd.V, E |-> upd.E,
              collapse_type |-> upd.collapse_type,
              history |-> AppendSnapshot(s.history,
                  Snapshot(s.time, upd.V, R, delta, again.value,
                           rupture.value, upd.collapse_type)),
              time |-> s.time + 1]

\* receive(R) on the engine whose fields are s: the fields after the call and
\* the exception it raised.
receive(s, R, noise, draw) ==
    LET V_prev == s.V
        delta == Abs(R - V_prev)
        theta == resolve_threshold(s, delta, noise)
        rupture == decide_rupture(s, V_prev, R, delta, theta.value)
        upd == IF rupture.value
               THEN rupture_reset(s, draw)
               ELSE [collapse_type |-> s.collapse_type] @@ realign(s, delta, R)
    IN  IF theta.raised # "none" THEN Unchanged(s, theta.raised)
        ELSE IF rupture.raised # "none" THEN Unchanged(s, rupture.raised)
        ELSE IF upd.raised # "none" THEN Unchanged(s, upd.raised)
        ELSE [raised |-> "none", V |-> upd.V, E |-> upd.E,
              collapse_type |-> upd.collapse_type,
              history |-> AppendSnapshot(s.history,
                  Snapshot(s.time, upd.V, R, delta, theta.value,
                           rupture.value, upd.collapse_type)),
              time |-> s.time + 1]

Receive ==
    /\ time < MaxSteps
    /\ \E R \in Signals, noise \in ThresholdDraws, draw \in HookDraws :
          LET out == receive(Self, R, noise, draw)
          IN  /\ V' = out.V
              /\ E' = out.E
              /\ collapse_type' = out.collapse_type
              /\ history' = out.history
              /\ time' = out.time
              /\ call' = [op |-> "receive", R |-> R, V0 |-> 0, E0 |-> 0,
                          V_prev |-> V, E_prev |-> E, t_prev |-> time,
                          ct_prev |-> collapse_type,
                          raised |-> out.raised, noise |-> noise, draw |-> draw]
    /\ direct' = NoDirect
    /\ UNCHANGED <<realign_fn, rupture_policy, threshold_fn, config, twin, sim>>

\* A reset that leaves the step counter running.
reset_keeps_time(V0, E0) ==
    [V |-> V0, E |-> E0, time |-> time, history |-> <<>>, collapse_type |-> "None"]

\* A reset that forgets to clear the trace.
reset_keeps_history(V0, E0) ==
    [V |-> V0, E |-> E0, time |-> 0, history |-> history, collapse_type |-> "None"]

\* A reset that leaves the last collapse label in place.
reset_keeps_label(V0, E0) ==
    [V |-> V0, E |-> E0, time |-> 0, history |-> <<>>,
     collapse_type |-> collapse_type]

\* reset(V0, E0): the engine's fields after the call.
reset(V0, E0) ==
    [V |-> V0, E |-> E0, time |-> 0, history |-> <<>>, collapse_type |-> "None"]

Reset ==
    /\ \E v \in ResetValues :
          LET out == reset(v[1], v[2])
          IN  /\ V' = out.V
              /\ E' = out.E
              /\ time' = out.time
              /\ history' = out.history
              /\ collapse_type' = out.collapse_type
              /\ call' = [op |-> "reset", R |-> 0, V0 |-> v[1], E0 |-> v[2],
                          V_prev |-> V, E_prev |-> E, t_prev |-> time,
                          ct_prev |-> collapse_type,
                          raised |-> "none", noise |-> 0, draw |-> 0]
    /\ direct' = NoDirect
    /\ UNCHANGED <<realign_fn, rupture_policy, threshold_fn, config, twin, sim>>

Next == Receive \/ Reset

Spec == Init /\ [][Next]_vars

(***************************************************************************)
(* Two engines constructed with the same arguments and fed the same        *)
(* signals; each draws its own random numbers.                             *)
(***************************************************************************)
InitPair ==
    \E v \in InitValues, e \in Engines :
        /\ twin = [V |-> v[1], E |-> v[2], history |-> <<>>, time |-> 0,
                   collapse_type |-> "None"]
        /\ direct = NoDirect
        /\ sim = NoSim
        /\ V = v[1]
        /\ E = v[2]
        /\ history = <<>>
        /\ realign_fn = e.realign_fn
        /\ rupture_policy = e.rupture_policy
        /\ threshold_fn = e.threshold_fn
        /\ config = e.config
        /\ time = 0
        /\ collapse_type = "None"
        /\ call = NoCall

\* Does the engine draw random numbers?
Noisy == ThresholdDraws # {0} \/ HookDraws # {0}

\* first.receive(R); second.receive(R)
PairReceive ==
    /\ time < MaxSteps
    /\ twin.time < MaxSteps
    /\ Noisy => time < MaxNoisySteps
    /\ \E R \in Signals, noise \in ThresholdDraws, draw \in HookDraws,
          noise2 \in ThresholdDraws, draw2 \in HookDraws :
          LET out == receive(Self, R, noise, draw)
              out2 == receive(twin, R, noise2, draw2)
          IN  /\ V' = out.V
              /\ E' = out.E
              /\ collapse_type' = out.collapse_type
              /\ history' = out.history
              /\ time' = out.time
              /\ twin' = [V |-> out2.V, E |-> out2.E, history |-> out2.history,
                          time |-> out2.time,
                          collapse_type |-> out2.collapse_type]
              /\ call' = [op |-> "receive", R |-> R, V0 |-> 0, E0 |-> 0,
                          V_prev |-> V, E_prev |-> E, t_prev |-> time,
                          ct_prev |-> collapse_type,
                          raised |-> out.raised, noise |-> noise, draw |-> draw]
    /\ UNCHANGED <<realign_fn, rupture_policy, threshold_fn, config, direct, sim>>

NextPair == PairReceive

SpecPair == InitPair /\ [][NextPair]_vars

(***************************************************************************)
(* Library functions called directly, as the unit tests call them          *)
(***************************************************************************)
InitCalls ==
    /\ V = 0
    /\ E = 0
    /\ history = <<>>
    /\ time = 0
    /\ collapse_type = "None"
    /\ realign_fn = "None"
    /\ rupture_policy = "None"
    /\ threshold_fn = "None"
    /\ config = EmptyDict
    /\ call = NoCall
    /\ twin = NoTwin
    /\ direct = NoDirect
    /\ sim = NoSim

\* One noise sample per theta_fn call: one per peer under 'consensus'.
NoiseSeqs(pol, cfg) ==
    [1..(IF pol.peer_states = <<>> THEN 1 ELSE Len(pol.peer_states))
        -> PolicyThetaDraws(pol.theta_fn, OrEmpty(cfg))]

\* rupture_fn = build_rupture_policy(...); rupture_fn(V, R, delta, E, t, config)
CallPolicy ==
    /\ direct.op = "none"
    /\ \E pol \in PolicyClosures, delta \in PolicyDeltas, mem \in PolicyMemories,
          cfg \in PolicyConfigs :
          \E noises \in NoiseSeqs(pol, cfg),
             u \in (IF pol.strategy = "stochastic" THEN UniformDraws ELSE {0}) :
             LET out == rupture_fn(pol, 0, 1000, delta, mem, 0, cfg, noises, u)
             IN  direct' = [op |-> "rupture_fn", pol |-> pol, V |-> 0, R |-> 1000,
                            delta |-> delta, E |-> mem, t |-> 0, config |-> cfg,
                            noises |-> noises, u |-> u,
                            raised |-> out.raised, value |-> out.value]
    /\ UNCHANGED <<V, E, history, time, collapse_type, realign_fn,
                   rupture_policy, threshold_fn, config, call, twin, sim>>

CollapseSignals == {None, Some(2000), Some(-500), Some(0)}

\* fn(V, E) and fn(V, E, R=R) for a collapse model fn
CallCollapse ==
    /\ direct.op = "none"
    /\ \E fn \in CollapseFns, Vp \in {0, 1000}, mem \in {0, 700},
          R \in CollapseSignals, draw \in CollapseDraws(None) :
          LET out == CollapseCall(fn, Vp, mem, R, None, None,
                                  IF fn = "collapse_randomized" THEN draw ELSE 0)
          IN  direct' = [op |-> "collapse", fn |-> fn, V |-> Vp, E |-> mem,
                         R |-> R, raised |-> out.raised,
                         outV |-> out.V, outE |-> out.E]
    /\ UNCHANGED <<V, E, history, time, collapse_type, realign_fn,
                   rupture_policy, threshold_fn, config, call, twin, sim>>

\* The IEEE-754 double x - y for grid values x/1000 and y/1000: the grid
\* value of the difference and whether the double lies below (-1), at (0) or
\* above (1) the double nearest to that grid value.  The grid is far coarser
\* than one unit in the last place, so a comparison with a grid value is
\* decided by the grid and, on a tie, by this sign.
FloatSub(x, y) ==
    [grid |-> x - y,
     ulps |-> CASE x = 120 /\ y = 50 -> -1
                [] x = 120 /\ y = 100 -> -1
                [] x = 150 /\ y = 50 -> -1
                [] x = 150 /\ y = 100 -> -1
                [] x = 200 /\ y = 50 -> 1
                [] x = 200 /\ y = 100 -> 0
                [] x = 350 /\ y = 50 -> 0
                [] x = 350 /\ y = 100 -> -1]

\* d > z for a grid value d and a double z
FloatGreater(d, z) == d > z.grid \/ (d = z.grid /\ z.ulps < 0)

\* One entry of the returned list: a plain label or 'collapsed:<type>'.
Zone(label, type) == [zone |-> label, type |-> type]

\* symbolize_drift_regions(field, margin) for step i of the field
ZoneOf(step, has_collapse, margin) ==
    IF step.ruptured
    THEN LET collapse == IF has_collapse THEN step.collapse_type ELSE "None"
         IN  IF collapse # "None"
             THEN Zone("collapsed", collapse) ELSE Zone("ruptured", "None")
    ELSE IF FloatGreater(step.delta, FloatSub(step.theta, margin))
    THEN Zone("adaptive", "None")
    ELSE Zone("stable", "None")

symbolize_drift_regions(field, margin) ==
    [i \in 1..Len(field.steps) |-> ZoneOf(field.steps[i], field.has_collapse, margin)]

DriftStep(d, th, r, ct) ==
    [delta |-> d, theta |-> th, ruptured |-> r, collapse_type |-> ct]

\* The steps of the tests' sample_trace and three more.
DriftSteps ==
    {DriftStep(100, 150, FALSE, "None"), DriftStep(100, 120, TRUE, "reset"),
     DriftStep(300, 200, FALSE, "None"), DriftStep(100, 200, FALSE, "None"),
     DriftStep(500, 350, TRUE, "None"), DriftStep(50, 350, FALSE, "None")}

RECURSIVE Traces(_)
Traces(n) ==
    IF n = 0 THEN {<<>>}
    ELSE Traces(n - 1)
            \cup {Append(q, x) : q \in {r \in Traces(n - 1) : Len(r) = n - 1},
                                 x \in DriftSteps}

Margins == {50, 100}

\* build_drift_field_matrix(trace, include_collapse); symbolize_drift_regions(field, margin)
CallSymbolize ==
    /\ direct.op = "none"
    /\ \E steps \in Traces(MaxTrace), has_collapse \in BOOLEAN, margin \in Margins :
          LET field == [steps |-> steps, has_collapse |-> has_collapse]
          IN  direct' = [op |-> "symbolize", field |-> field, margin |-> margin,
                         zones |-> symbolize_drift_regions(field, margin)]
    /\ UNCHANGED <<V, E, history, time, collapse_type, realign_fn,
                   rupture_policy, threshold_fn, config, call, twin, sim>>

NextCalls == CallPolicy \/ CallCollapse \/ CallSymbolize

SpecCalls == InitCalls /\ [][NextCalls]_vars

(***************************************************************************)
(* The simulation driver (sim/rupture_sim.py)                              *)
(***************************************************************************)
\* generate_signal_sequence(mode, steps, value = v): a generator object.  Its
\* body runs only when next() is applied to it.
generate_signal_sequence(mode, steps, v) ==
    [kind |-> "generator", mode |-> mode, steps |-> steps, value |-> v]

ListSignal(items) == [kind |-> "list", items |-> items]

SimValues == {100, 1000}

SimSignals ==
    {generate_signal_sequence("constant", n, v) : n \in 0..MaxSteps, v \in SimValues}
        \cup {ListSignal(<<>>), ListSignal(<<1000>>), ListSignal(<<1000, 100>>),
              ListSignal(<<1000, 100, 1000>>)}

\* collapse_fn = None
NoCollapseFn == Plain("None")

SimCollapseFns == {NoCollapseFn} \cup Hooks

\* next(signal_sequence) if callable(signal_sequence) else signal_sequence[t]:
\* a generator is neither callable nor subscriptable, a list is indexed from 0.
Fetch(signal, t) ==
    IF signal.kind = "generator"
    THEN [raised |-> "TypeError", R |-> 0]
    ELSE IF t + 1 > Len(signal.items)
    THEN [raised |-> "IndexError", R |-> 0]
    ELSE [raised |-> "none", R |-> signal.items[t + 1]]

\* state.step(R): EpistemicState defines no attribute step.
step(s, R, noise, draw) == Unchanged(s, "AttributeError")

\* An absent boolean (dict.get of a missing key).
NoneBool == [some |-> FALSE, val |-> FALSE]

\* state(): the engine's fields, a fresh threshold probe at delta = 0 and the
\* last snapshot's delta, flag and label (all None with no history).
state(s, noise) ==
    LET theta == resolve_threshold(s, 0, noise)
        some == s.history # <<>>
        last == s.history[Len(s.history)]
    IN  [raised |-> theta.raised, V |-> s.V, E |-> s.E, theta |-> theta.value,
         t |-> s.time,
         delta |-> IF some THEN Some(last.delta) ELSE None,
         ruptured |-> IF some THEN Some(last.ruptured) ELSE NoneBool,
         collapse_type |-> IF some THEN last.collapse_type ELSE "None"]

SimRaise(exc) ==
    [engine |-> Self, sim |-> [sim EXCEPT !.status = "raised", !.raised = exc]]

SimReturn == [engine |-> Self, sim |-> [sim EXCEPT !.status = "returned"]]

\* One pass of the loop `for t in range(steps)` of simulate_epistemic_drift,
\* or the return after it: [engine, sim].
simulate_iteration(noise, draw, noise2, draw2) ==
    LET t == sim.t
        fetched == Fetch(sim.signal, t)
        stepped == step(Self, fetched.R, noise, draw)
        after == [V |-> stepped.V, E |-> stepped.E, history |-> stepped.history,
                  time |-> stepped.time, collapse_type |-> stepped.collapse_type]
        snapshot == state(after, noise2)
        applies == /\ snapshot.ruptured.some
                   /\ snapshot.ruptured.val
                   /\ sim.collapse_fn # NoCollapseFn
        collapsed == HookCall(sim.collapse_fn, after.V, after.E,
                              Some(fetched.R), Some(t), Some(config), draw2)
        entry == [V |-> snapshot.V, E |-> snapshot.E, theta |-> snapshot.theta,
                  t |-> t, R |-> fetched.R, delta |-> snapshot.delta,
                  ruptured |-> snapshot.ruptured,
                  collapse_type |->
                      IF ~applies THEN snapshot.collapse_type
                      ELSE IF collapsed.isDict THEN collapsed.type ELSE "raw"]
    IN  IF t >= sim.steps THEN SimReturn
        ELSE IF fetched.raised = "IndexError" THEN SimReturn
        ELSE IF fetched.raised # "none" THEN SimRaise(fetched.raised)
        ELSE IF stepped.raised # "none" THEN SimRaise(stepped.raised)
        ELSE IF snapshot.raised # "none" THEN SimRaise(snapshot.raised)
        ELSE IF applies /\ collapsed.raised # "none" THEN SimRaise(collapsed.raised)
        ELSE [engine |-> IF applies
                         THEN [after EXCEPT !.V = collapsed.V, !.E = collapsed.E]
                         ELSE after,
              sim |-> [sim EXCEPT
                         !.t = t + 1,
                         !.trace = Append(sim.trace, entry),
                         !.outputs = IF applies
                                     THEN Append(sim.outputs,
                                                 [t |-> t, V |-> collapsed.V,
                                                  E |-> collapsed.E,
                                                  argV |-> after.V,
                                                  argE |-> after.E,
                                                  V_prev |-> V, E_prev |-> E])
                                     ELSE sim.outputs]]

\* simulate_epistemic_drift(state, signal_sequence, steps, collapse_fn) is called.
SimStart ==
    /\ sim.status = "idle"
    /\ \E signal \in SimSignals, n \in 0..MaxSteps, cf \in SimCollapseFns :
          sim' = [status |-> "running", t |-> 0, steps |-> n, signal |-> signal,
                  collapse_fn |-> cf, trace |-> <<>>, outputs |-> <<>>,
                  raised |-> "none"]
    /\ UNCHANGED <<V, E, history, time, collapse_type, realign_fn,
                   rupture_policy, threshold_fn, config, call, twin, direct>>

SimIterate ==
    /\ sim.status = "running"
    /\ \E noise \in ThresholdDraws, draw \in HookDraws,
          noise2 \in ThresholdDraws, draw2 \in CollapseDraws(Some(config)) :
          LET out == simulate_iteration(noise, draw, noise2, draw2)
          IN  /\ V' = out.engine.V
              /\ E' = out.engine.E
              /\ history' = out.engine.history
              /\ time' = out.engine.time
              /\ collapse_type' = out.engine.collapse_type
              /\ sim' = out.sim
    /\ UNCHANGED <<realign_fn, rupture_policy, threshold_fn, config, call,
                   twin, direct>>

NextSim == SimStart \/ SimIterate

SpecSim == Init /\ [][NextSim]_vars

(***************************************************************************)
(* The engine's read-only operations, called between receive and reset     *)
(***************************************************************************)
\* The last two signals read by popping them off the history.
projected_divergence_pops(s) ==
    IF Len(s.history) < 2
    THEN [engine |-> s, raised |-> "none", value |-> None]
    ELSE [engine |-> [s EXCEPT !.history = SubSeq(s.history, 1, Len(s.history) - 2)],
          raised |-> "none",
          value |-> Some(s.history[Len(s.history)].R
                            - s.history[Len(s.history) - 1].R)]

\* projected_divergence(): [engine, raised, value]
projected_divergence(s) ==
    IF Len(s.history) < 2
    THEN [engine |-> s, raised |-> "none", value |-> None]
    ELSE [engine |-> s, raised |-> "none",
          value |-> Some(s.history[Len(s.history)].R
                            - s.history[Len(s.history) - 1].R)]

\* The estimate with its sign reversed: theta - delta.
rupture_risk_reversed(s, noise) ==
    IF s.history = <<>>
    THEN [engine |-> s, raised |-> "none", value |-> None]
    ELSE LET delta == s.history[Len(s.history)].delta
             theta == resolve_threshold(s, delta, noise)
         IN  [engine |-> s, raised |-> theta.raised,
              value |-> Some(theta.value - delta)]

\* rupture_risk(): the last delta minus a fresh threshold, [engine, raised, value]
rupture_risk(s, noise) ==
    IF s.history = <<>>
    THEN [engine |-> s, raised |-> "none", value |-> None]
    ELSE LET delta == s.history[Len(s.history)].delta
             theta == resolve_threshold(s, delta, noise)
         IN  [engine |-> s, raised |-> theta.raised,
              value |-> Some(delta - theta.value)]

\* symbol(): [engine, raised, value]
symbol(s) ==
    [engine |-> s, raised |-> "none",
     value |-> IF s.history = <<>> THEN "empty"
               ELSE IF s.history[Len(s.history)].ruptured THEN "rupture"
               ELSE "aligned"]

ReadOps == {"state", "projected_divergence", "rupture_risk", "symbol"}

\* One read-only operation: [engine, raised, value]
ReadCall(op, s, noise) ==
    CASE op = "state" ->
             LET snapshot == state(s, noise)
             IN  [engine |-> s, raised |-> snapshot.raised, value |-> snapshot]
      [] op = "projected_divergence" -> projected_divergence(s)
      [] op = "rupture_risk" -> rupture_risk(s, noise)
      [] op = "symbol" -> symbol(s)

Observe ==
    /\ direct.op = "none"
    /\ \E op \in ReadOps :
          \E noise \in (IF op \in {"state", "rupture_risk"}
                        THEN ThresholdDraws ELSE {0}) :
             LET out == ReadCall(op, Self, noise)
             IN  /\ V' = out.engine.V
                 /\ E' = out.engine.E
                 /\ history' = out.engine.history
                 /\ time' = out.engine.time
                 /\ collapse_type' = out.engine.collapse_type
                 /\ direct' = [op |-> op, raised |-> out.raised,
                               value |-> out.value, noise |-> noise]
    /\ UNCHANGED <<realign_fn, rupture_policy, threshold_fn, config, call, twin, sim>>

NextObserve == Receive \/ Reset \/ Observe

SpecObserve == Init /\ [][NextObserve]_vars

(***************************************************************************)
(* Reset against construction.  An engine receives signals, is reset to    *)
(* (V0, E0), and from then on is fed the same signals as `twin`, an engine *)
(* constructed with (V0, E0) and the same policies and config.             *)
(***************************************************************************)
\* receive(R) before the reset
PriorReceive ==
    /\ call.op \in {"init", "receive"}
    /\ Receive

\* used.reset(V0, E0); fresh = EpistemicState(V0, E0, rupture_policy,
\* realign_fn, threshold_fn, config)
ResetFresh ==
    /\ call.op = "receive"
    /\ history # <<>>
    /\ \E v \in ResetValues :
          LET out == reset(v[1], v[2])
          IN  /\ V' = out.V
              /\ E' = out.E
              /\ time' = out.time
              /\ history' = out.history
              /\ collapse_type' = out.collapse_type
              /\ twin' = [V |-> v[1], E |-> v[2], history |-> <<>>, time |-> 0,
                          collapse_type |-> "None"]
              /\ call' = [op |-> "reset", R |-> 0, V0 |-> v[1], E0 |-> v[2],
                          V_prev |-> V, E_prev |-> E, t_prev |-> time,
                          ct_prev |-> collapse_type,
                          raised |-> "none", noise |-> 0, draw |-> 0]
    /\ UNCHANGED <<realign_fn, rupture_policy, threshold_fn, config, direct, sim>>

\* used.receive(R); fresh.receive(R)
ReplayReceive ==
    /\ call.op \in {"reset", "replay"}
    /\ time < MaxSteps
    /\ twin.time < MaxSteps
    /\ Noisy => time < MaxNoisySteps
    /\ \E R \in Signals, noise \in ThresholdDraws, draw \in HookDraws,
          noise2 \in ThresholdDraws, draw2 \in HookDraws :
          LET out == receive(Self, R, noise, draw)
              out2 == receive(twin, R, noise2, draw2)
          IN  /\ V' = out.V
              /\ E' = out.E
              /\ collapse_type' = out.collapse_type
              /\ history' = out.history
              /\ time' = out.time
              /\ twin' = [V |-> out2.V, E |-> out2.E, history |-> out2.history,
                          time |-> out2.time,
                          collapse_type |-> out2.collapse_type]
              /\ call' = [op |-> "replay", R |-> R, V0 |-> 0, E0 |-> 0,
                          V_prev |-> V, E_prev |-> E, t_prev |-> time,
                          ct_prev |-> collapse_type,
                          raised |-> out.raised, noise |-> noise, draw |-> draw]
    /\ UNCHANGED <<realign_fn, rupture_policy, threshold_fn, config, direct, sim>>

NextReplay == PriorReceive \/ ResetFresh \/ ReplayReceive

SpecReplay == Init /\ [][NextReplay]_vars

(***************************************************************************)
(* A policy and a threshold that hold a peer engine.  The peer is the      *)
(* engine `twin`; it is built with `config` and goes on receiving signals  *)
(* and being reset while the policy that refers to it is evaluated.        *)
(***************************************************************************)
PeerConfigs ==
    {TestConfig, [theta0 |-> 200, a |-> 100, sigma_theta |-> 0, k |-> 500, c |-> 200]}

InitPeers ==
    \E v \in InitValues, c \in PeerConfigs :
        /\ twin = [V |-> v[1], E |-> v[2], history |-> <<>>, time |-> 0,
                   collapse_type |-> "None"]
        /\ direct = NoDirect
        /\ sim = NoSim
        /\ V = 0
        /\ E = 0
        /\ history = <<>>
        /\ time = 0
        /\ collapse_type = "None"
        /\ realign_fn = "None"
        /\ rupture_policy = "None"
        /\ threshold_fn = "None"
        /\ config = c
        /\ call = NoCall

PeerKinds == {"consensus", "coupled_field"}

PeerDeltas == {510, 600}

\* The signals the peer receives.
PeerSignals == {100, 1000}

\* build_rupture_policy(strategy="consensus", theta_fn=..., peer_states=[peer])
\* or a config {'peer_states': [peer]} for theta_from_coupled_field.
BuildPolicy ==
    /\ direct.op = "none"
    /\ \E kind \in PeerKinds :
          direct' = [op |-> "built", kind |-> kind,
                     peer_states |-> <<PeerRef(twin.E)>>, results |-> <<>>]
    /\ UNCHANGED <<V, E, history, time, collapse_type, realign_fn,
                   rupture_policy, threshold_fn, config, call, twin, sim>>

\* One evaluation with the caller's memory 0: [peer, value], the peer engine
\* after the call and the policy's decision or the threshold's value.
PeerEval(kind, peer_states, delta) ==
    IF kind = "consensus"
    THEN [peer |-> twin,
          value |-> rupture_fn(Closure("consensus", "lambda_half_plus_half_E",
                                       peer_states, "None", "None"),
                               0, delta, delta, 0, 0, Some(EmptyDict),
                               <<0>>, 0).value]
    ELSE [peer |-> twin,
          value |-> theta_from_coupled_field(
                        delta, 0, Some([peer_states |-> peer_states]))]

\* rupture_fn(0.0, delta, delta, 0.0, 0, {}) or
\* theta_from_coupled_field(delta, 0.0, config)
Evaluate ==
    /\ direct.op = "built"
    /\ Len(direct.results) < MaxEvals
    /\ \E delta \in PeerDeltas :
          LET out == PeerEval(direct.kind, direct.peer_states, delta)
          IN  /\ twin' = out.peer
              /\ direct' = [direct EXCEPT
                               !.results = Append(@, [delta |-> delta,
                                                      value |-> out.value])]
    /\ UNCHANGED <<V, E, history, time, collapse_type, realign_fn,
                   rupture_policy, threshold_fn, config, call, sim>>

\* peer.receive(R)
PeerReceive ==
    /\ twin.time < MaxSteps
    /\ \E R \in PeerSignals, noise \in ThresholdDraws, draw \in HookDraws :
          LET out == receive(twin, R, noise, draw)
          IN  twin' = [V |-> out.V, E |-> out.E, history |-> out.history,
                       time |-> out.time, collapse_type |-> out.collapse_type]
    /\ UNCHANGED <<V, E, history, time, collapse_type, realign_fn,
                   rupture_policy, threshold_fn, config, call, direct, sim>>

\* peer.reset(V0, E0)
PeerReset ==
    /\ \E v \in ResetValues : twin' = reset(v[1], v[2])
    /\ UNCHANGED <<V, E, history, time, collapse_type, realign_fn,
                   rupture_policy, threshold_fn, config, call, direct, sim>>

NextPeers == BuildPolicy \/ Evaluate \/ PeerReceive \/ PeerReset

SpecPeers == InitPeers /\ [][NextPeers]_vars

(***************************************************************************)
(* Properties                                                              *)
(***************************************************************************)
Last == history[Len(history)]

ReceiveDone == call.op = "receive" /\ call.raised = "none"

HasHook == "rupture_reset_fn" \in DOMAIN config

\* The distortion of the last call, from its arguments.
CallDelta == Abs(call.R - call.V_prev)

\* C1: in every reachable state (fresh, after a completed receive, after a
\* reset) the step counter equals the number of snapshots in history.
C1_StepIndexIsHistoryLength == time = Len(history)

C1_Witness ==
    /\ call.op = "reset"
    /\ call.t_prev = 2
    /\ time = 0
    /\ history = <<>>

\* C2: every receive that completes, ruptured or not, increases step_index by
\* exactly 1 and appends exactly one snapshot, leaving the snapshots already
\* written unchanged and in order.
C2_ReceiveAppendsOne ==
    [][(call'.op = "receive" /\ call'.raised = "none")
          => /\ time' = time + 1
             /\ Len(history') = Len(history) + 1
             /\ SubSeq(history', 1, Len(history)) = history]_vars

C2_Witness ==
    /\ ReceiveDone
    /\ Len(history) = 3
    /\ history[1].ruptured
    /\ ~history[2].ruptured
    /\ history[3].ruptured

\* C3: with no rupture policy and a deterministic threshold, a step ruptures
\* exactly when the distortion is strictly greater than the threshold; with
\* theta0 = 0.2, a = 0, sigma = 0 and V = 0, R = 1.0 ruptures and R = 0.1
\* does not.
DeterministicTheta ==
    \/ threshold_fn \in StarThetas
    \/ threshold_fn = "None" /\ Get(config, "sigma_theta", DefaultSigmaTheta) = 0

ExpectedTheta ==
    IF threshold_fn \in StarThetas
    THEN StarThetaValue(threshold_fn)
    ELSE Get(config, "theta0", DefaultTheta0)
            + Mul(Get(config, "a", DefaultA), call.E_prev)

C3_DefaultRuleIsStrict ==
    (ReceiveDone /\ rupture_policy = "None" /\ DeterministicTheta)
        => /\ Last.ruptured = (CallDelta > ExpectedTheta)
           /\ (config = TestConfig /\ threshold_fn = "None" /\ call.V_prev = 0)
                 => /\ call.R = 1000 => Last.ruptured
                    /\ call.R = 100 => ~Last.ruptured

C3_Witness ==
    /\ ReceiveDone
    /\ rupture_policy = "None"
    /\ DeterministicTheta
    /\ CallDelta = ExpectedTheta
    /\ ~Last.ruptured

\* C4: an engine whose rupture_policy is build_rupture_policy(strategy = s),
\* s one of threshold, consensus, stochastic, hybrid, completes receive(R)
\* without error and appends one snapshot.
C4_BuiltPolicyAccepted ==
    (call.op = "receive" /\ rupture_policy \in BuiltStrategies
                         /\ threshold_fn \notin NamedThetas)
        => /\ call.raised = "none"
           /\ Len(history) = call.t_prev + 1

\* C5: an engine whose threshold_fn is one of the named threshold variants
\* completes receive(R) without error, and the snapshot's threshold is the
\* variant's formula at the pre-step memory (linear_growth: theta0 + a*E).
NamedTheta(fn, delta, mem, cfg, noise) ==
    CASE fn = "theta_linear_growth" -> theta_linear_growth(delta, mem, cfg)
      [] fn = "theta_stochastic_noise" -> theta_stochastic_noise(delta, mem, cfg, noise)
      [] fn = "theta_saturating" -> theta_saturating(delta, mem, cfg)
      [] fn = "theta_from_coupled_field" -> theta_from_coupled_field(delta, mem, cfg)

C5_NamedThresholdAccepted ==
    (call.op = "receive" /\ threshold_fn \in NamedThetas)
        => /\ call.raised = "none"
           /\ Len(history) = call.t_prev + 1
           /\ \E n \in Normal(Get(config, "sigma_theta", DefaultSigmaTheta)) :
                 Last.theta = NamedTheta(threshold_fn, CallDelta, call.E_prev,
                                         Some(config), n)

\* C6: the threshold stored in a step's snapshot is the value that decided the
\* step's rupture flag (ruptured = delta > theta for the stored values), under
\* the default rule and under a policy built with strategy 'threshold'.
C6_StoredThetaDecides ==
    (call.op = "receive" /\ rupture_policy \in {"None", "threshold"}
                         /\ threshold_fn \notin NamedThetas
                         /\ realign_fn # "realign_custom_template")
        => /\ Len(history) = call.t_prev + 1
           /\ Last.ruptured = (Last.delta > Last.theta)

\* C7: on a non-rupture step the new memory is E + c*delta and, with no
\* realign_fn, the new projection is V + k*delta*(1+E), both from the pre-step
\* memory and the distortion of the rupture decision; with a realign_fn the
\* new projection is that function's return value.
C7_RealignAndMemory ==
    (ReceiveDone /\ ~Last.ruptured)
        => /\ Last.delta = CallDelta
           /\ E = call.E_prev + Mul(Get(config, "c", DefaultC), CallDelta)
           /\ Last.V = V
           /\ realign_fn = "None"
                 => V = call.V_prev
                          + Mul(Mul(Get(config, "k", DefaultK), CallDelta),
                                Scale + call.E_prev)
           /\ realign_fn = "mock_realign"
                 => V = call.V_prev + Mul(100, CallDelta)
           /\ realign_fn = "realign_linear"
                 => V = realign_linear(call.V_prev, call.R, CallDelta,
                                       call.E_prev, call.t_prev, Some(config))

C7_Witness ==
    /\ ReceiveDone
    /\ ~Last.ruptured
    /\ realign_fn = "None"
    /\ call.E_prev > 0
    /\ CallDelta > 0
    /\ V # call.V_prev

\* C8: when a step ruptures and the config holds no collapse hook, projection
\* and memory are 0 after the step, the snapshot's V is 0 and the collapse
\* type is 'default'.
C8_DefaultCollapse ==
    (ReceiveDone /\ Last.ruptured /\ ~HasHook)
        => /\ V = 0
           /\ E = 0
           /\ Last.V = 0
           /\ collapse_type = "default"
           /\ Last.collapse_type = "default"

C8_Witness ==
    /\ ReceiveDone
    /\ Last.ruptured
    /\ ~HasHook
    /\ call.V_prev # 0
    /\ call.E_prev # 0
    /\ V = 0
    /\ E = 0

\* C9: when a step ruptures and a collapse hook is configured, V and E after
\* the step and the snapshot's V are the hook's output, for a plain pair and
\* for a labeled mapping; a label becomes the step's collapse type.
HookOutput ==
    HookCall(config.rupture_reset_fn, call.V_prev, call.E_prev,
             Some(ToFloat(call.t_prev)), None, None, call.draw)

C9_HookCollapse ==
    (ReceiveDone /\ Last.ruptured /\ HasHook)
        => /\ V = HookOutput.V
           /\ E = HookOutput.E
           /\ Last.V = HookOutput.V
           /\ config.rupture_reset_fn.wrapped
                 => /\ collapse_type = config.rupture_reset_fn.label
                    /\ Last.collapse_type = config.rupture_reset_fn.label
           /\ ~config.rupture_reset_fn.wrapped => collapse_type = "None"

C9_Witness ==
    /\ ReceiveDone
    /\ Last.ruptured
    /\ HasHook
    /\ config.rupture_reset_fn = Symbolic("collapse_soft_decay", "soft")
    /\ call.E_prev > 0
    /\ E > 0
    /\ collapse_type = "soft"

\* C10: with collapse_adopt_R as the collapse hook, every ruptured step ends
\* with the projection equal to the step's received signal R and memory 0,
\* and the snapshot's V equals R.
C10_AdoptRTakesSignal ==
    (ReceiveDone /\ Last.ruptured /\ HasHook
        /\ config.rupture_reset_fn = Plain("collapse_adopt_R"))
        => /\ V = call.R
           /\ E = 0
           /\ Last.V = call.R

\* C11: after reset(V0, E0) the projection is V0 and the memory is E0 (the
\* caller's values, not the constructor's), the step counter is 0, the
\* history is empty and the collapse type is cleared, whatever came before.
C11_ResetRestores ==
    call.op = "reset"
        => /\ V = call.V0
           /\ E = call.E0
           /\ time = 0
           /\ history = <<>>
           /\ collapse_type = "None"

C11_Witness ==
    /\ call.op = "reset"
    /\ call.t_prev = 3
    /\ call.ct_prev = "soft"
    /\ call.V0 = 500
    /\ call.V_prev # 500
    /\ V = 500
    /\ E = 200
    /\ collapse_type = "None"

\* C12: two engines constructed with the same arguments and deterministic
\* policies (no threshold noise, no stochastic policy, no randomized
\* collapse) and fed the same signals hold identical histories, and
\* identical fields, at every step.
DeterministicEngine ==
    /\ DeterministicTheta
    /\ rupture_policy # "stochastic"
    /\ ~(HasHook /\ config.rupture_reset_fn.fn = "collapse_randomized")

C12_TwinsAgree ==
    DeterministicEngine
        => /\ twin.history = history
           /\ twin = Self

C12_Witness ==
    /\ DeterministicEngine
    /\ threshold_fn = "None"
    /\ Len(history) = 3
    /\ history[1].ruptured
    /\ ~history[2].ruptured
    /\ history[2].theta # history[1].theta
    /\ twin.history = history

\* C13: every snapshot of a step that did not rupture carries no collapse
\* type; a collapse label is recorded only on steps where a rupture occurred.
C13_NoLabelWithoutRupture ==
    \A i \in 1..Len(history) :
        ~history[i].ruptured => history[i].collapse_type = "None"

\* C14: on a non-rupture step under the default realignment, with gain
\* 0 < k <= 1 and memory 0 before the step, the projection after the step is
\* at least as close to the received signal as before it, for signals above
\* and below the projection.
C14_RealignNeverFarther ==
    (ReceiveDone /\ ~Last.ruptured /\ realign_fn = "None"
        /\ call.E_prev = 0
        /\ Get(config, "k", DefaultK) > 0
        /\ Get(config, "k", DefaultK) <= Scale)
        => Abs(call.R - V) <= Abs(call.R - call.V_prev)

\* C15: simulate_epistemic_drift(state, signal, steps = n), with state an
\* engine at step 0 and signal produced by generate_signal_sequence(steps = n),
\* feeds exactly n signals to the engine and returns a trace of n snapshots;
\* afterwards the engine's step counter and history length are n.
SimDone == sim.status \in {"returned", "raised"}

PlainEngine ==
    /\ rupture_policy = "None"
    /\ threshold_fn \notin NamedThetas
    /\ realign_fn # "realign_custom_template"

C15_DriverFeedsAll ==
    (SimDone /\ PlainEngine
        /\ sim.signal.kind = "generator" /\ sim.signal.steps = sim.steps)
        => /\ sim.status = "returned"
           /\ Len(sim.trace) = sim.steps
           /\ time = sim.steps
           /\ Len(history) = sim.steps

\* C16: with a collapse_fn supplied, simulate_epistemic_drift returns a trace
\* in which every snapshot with ruptured = true has V and E equal to the
\* collapse_fn's output for that step, and the engine holds the same output
\* after that step.
C16_TraceHoldsCollapseOutput ==
    (SimDone /\ PlainEngine /\ sim.collapse_fn # NoCollapseFn
        /\ sim.signal.kind = "list" /\ Len(sim.signal.items) >= sim.steps)
        => /\ sim.status = "returned"
           /\ Len(sim.trace) = sim.steps
           /\ \A i \in 1..Len(sim.trace) :
                 (sim.trace[i].ruptured.some /\ sim.trace[i].ruptured.val)
                    => \E o \in {sim.outputs[j] : j \in 1..Len(sim.outputs)} :
                          /\ o.t = sim.trace[i].t
                          /\ sim.trace[i].V = o.V
                          /\ sim.trace[i].E = o.E

\* C17: a policy built with strategy 'consensus' ruptures exactly when the
\* distortion exceeds the arithmetic mean, over the builder's peer states, of
\* theta_fn(delta, peer memory, config), whatever the caller's own memory;
\* with an empty peer list it never ruptures.
ConsensusCall == direct.op = "rupture_fn" /\ direct.pol.strategy = "consensus"

PeerThetaSum ==
    SeqSum([i \in 1..Len(direct.pol.peer_states) |->
               PolicyTheta(direct.pol.theta_fn, direct.delta,
                           direct.pol.peer_states[i].E, OrEmpty(direct.config),
                           direct.noises[i])])

C17_ConsensusUsesPeerMean ==
    ConsensusCall
        => /\ direct.raised = "none"
           /\ direct.pol.peer_states = <<>> => ~direct.value
           /\ direct.pol.peer_states # <<>>
                 => /\ direct.value
                          = (direct.delta * Len(direct.pol.peer_states) > PeerThetaSum)
                    /\ \A m \in PolicyMemories :
                          rupture_fn(direct.pol, direct.V, direct.R, direct.delta, m,
                                     direct.t, direct.config, direct.noises,
                                     direct.u).value = direct.value

C17_Witness ==
    /\ ConsensusCall
    /\ direct.pol.theta_fn = "lambda_half_plus_half_E"
    /\ Len(direct.pol.peer_states) = 2
    /\ direct.delta = 576
    /\ direct.E = 900
    /\ direct.value

\* C18: a built policy whose strategy is not one of the four, or is 'hybrid'
\* with no hybrid_fn, returns false for every input and raises nothing;
\* 'hybrid' with a hybrid_fn returns that function's result.
FallsThrough ==
    /\ direct.op = "rupture_fn"
    /\ \/ direct.pol.strategy \notin BuiltStrategies
       \/ direct.pol.strategy = "hybrid" /\ direct.pol.hybrid_fn = "None"

C18_UnknownStrategyIsFalse ==
    /\ FallsThrough => (direct.raised = "none" /\ ~direct.value)
    /\ (direct.op = "rupture_fn" /\ direct.pol.strategy = "hybrid"
            /\ direct.pol.hybrid_fn = "hybrid_custom")
          => (direct.raised = "none" /\ direct.value = (direct.delta > 400))

C18_Witness ==
    /\ FallsThrough
    /\ direct.pol.strategy = "majority"
    /\ direct.delta = 1000
    /\ direct.raised = "none"
    /\ ~direct.value

\* C19: an engine built with realign_custom_template as realign_fn raises
\* NotImplementedError on every receive that does not rupture and changes
\* nothing; only a receive that ruptures completes.
TemplateReceive ==
    /\ call.op = "receive"
    /\ realign_fn = "realign_custom_template"
    /\ rupture_policy = "None"
    /\ threshold_fn \in StarThetas

C19_TemplateRaises ==
    TemplateReceive
        => IF CallDelta > StarThetaValue(threshold_fn)
           THEN call.raised = "none" /\ Last.ruptured
           ELSE /\ call.raised = "NotImplementedError"
                /\ V = call.V_prev
                /\ E = call.E_prev
                /\ time = call.t_prev
                /\ Len(history) = call.t_prev

C19_Witness ==
    /\ TemplateReceive
    /\ call.raised = "NotImplementedError"
    /\ CallDelta > 0
    /\ call.t_prev = 1
    /\ Len(history) = 1
    /\ history[1].ruptured

\* C20: collapse_adopt_R called without a signal raises ValueError and
\* returns no pair; called with a signal R it returns (R, 0).
AdoptRCall == direct.op = "collapse" /\ direct.fn = "collapse_adopt_R"

C20_AdoptRNeedsSignal ==
    AdoptRCall
        => IF direct.R.some
           THEN /\ direct.raised = "none"
                /\ direct.outV = direct.R.val
                /\ direct.outE = 0
           ELSE direct.raised = "ValueError"

C20_Witness ==
    /\ AdoptRCall
    /\ ~direct.R.some
    /\ direct.V = 1000
    /\ direct.E = 700
    /\ direct.raised = "ValueError"

\* C21: state(), projected_divergence(), rupture_risk() and symbol() leave V,
\* E, the step counter, the history and the collapse type unchanged; state()
\* reports t equal to the step counter and the last snapshot's delta, rupture
\* flag and collapse type, all of them null when the history is empty.
StateCall == direct.op = "state" /\ direct.raised = "none"

StateReportsLast ==
    StateCall
        => /\ direct.value.t = time
           /\ direct.value.V = V
           /\ direct.value.E = E
           /\ history = <<>>
                 => /\ direct.value.delta = None
                    /\ direct.value.ruptured = NoneBool
                    /\ direct.value.collapse_type = "None"
           /\ history # <<>>
                 => /\ direct.value.delta = Some(Last.delta)
                    /\ direct.value.ruptured = Some(Last.ruptured)
                    /\ direct.value.collapse_type = Last.collapse_type

C21_ReadOnlyOperations ==
    /\ []StateReportsLast
    /\ [][direct'.op \in ReadOps
            => UNCHANGED <<V, E, time, history, collapse_type>>]_vars

C21_Witness ==
    /\ direct.op = "projected_divergence"
    /\ direct.value.some
    /\ direct.value.val # 0
    /\ Len(history) = 3
    /\ history[3].ruptured
    /\ collapse_type = "soft"

\* C22: symbolize_drift_regions returns exactly one zone label per step: a
\* ruptured step is 'collapsed:<type>' when it has a collapse type and
\* 'ruptured' otherwise; a step that did not rupture is 'adaptive' exactly
\* when delta > theta - margin and 'stable' otherwise, so delta = 0.1,
\* theta = 0.15, margin = 0.05 is 'stable'.
C22_OneZonePerStep ==
    (direct.op = "symbolize" /\ direct.field.has_collapse)
        => /\ Len(direct.zones) = Len(direct.field.steps)
           /\ \A i \in 1..Len(direct.zones) :
                 LET st == direct.field.steps[i]
                 IN  direct.zones[i]
                        = IF st.ruptured
                          THEN IF st.collapse_type # "None"
                               THEN Zone("collapsed", st.collapse_type)
                               ELSE Zone("ruptured", "None")
                          ELSE IF st.delta > st.theta - direct.margin
                          THEN Zone("adaptive", "None")
                          ELSE Zone("stable", "None")

\* The call of test_stochastic_policy_probabilistic: a stochastic policy with
\* theta_fn = lambda d, E, cfg: 0.5, called with delta = 1.0, slope = 10.
StochasticCall ==
    /\ direct.op = "rupture_fn"
    /\ direct.pol.strategy = "stochastic"
    /\ direct.pol.theta_fn = "lambda_half"
    /\ direct.pol.probability_fn = "None"
    /\ direct.delta = Scale
    /\ direct.config = Some([slope |-> 10 * Scale])

\* The same call made again with uniform draw u.
Redraw(u) ==
    rupture_fn(direct.pol, direct.V, direct.R, direct.delta, direct.E,
               direct.t, direct.config, direct.noises, u)

\* C23: a stochastic policy with fixed threshold 0.5, delta = 1.0 and slope
\* 10 has a rupture probability strictly between 0 and 1: the call returns
\* without raising, its outcome is the one its uniform draw gives, and over
\* repeated calls both outcomes occur, rupture for the lowest draw and no
\* rupture for the highest.
C23_StochasticBothOutcomes ==
    StochasticCall
        => /\ direct.raised = "none"
           /\ direct.value = Redraw(direct.u).value
           /\ \E u \in UniformDraws : Redraw(u).value
           /\ \E u \in UniformDraws : ~Redraw(u).value
           /\ \A u \in UniformDraws :
                 (u <= direct.u /\ direct.value) => Redraw(u).value

C23_Witness == StochasticCall /\ ~direct.value /\ direct.u = 999

\* C24: within one receive the distortion and the threshold are computed
\* once, from the projection, memory and step index held before the step's
\* update: the snapshot stores that distortion, that step index and that
\* threshold (one noise sample), and the rupture flag is the decision made
\* with the stored threshold, by the default rule or by the policy called
\* with it.
C24_OneThetaPerReceive ==
    ReceiveDone
        => /\ Last.t = call.t_prev
           /\ Last.delta = CallDelta
           /\ Last.theta = ExpectedTheta + call.noise
           /\ Last.ruptured =
                 (IF rupture_policy = "None"
                  THEN DefaultRupture(Last.delta, Last.theta)
                  ELSE user_policy(call.V_prev, call.R, Last.delta, call.E_prev,
                                   Last.theta, call.t_prev, Some(config)))

C24_Witness ==
    /\ ReceiveDone
    /\ call.noise # 0
    /\ call.E_prev > 0
    /\ E # call.E_prev
    /\ Len(history) = 2
    /\ ~Last.ruptured
    /\ Last.theta # Get(config, "theta0", DefaultTheta0) + Mul(Get(config, "a", DefaultA), E) + call.noise

RaisingCallable ==
    IF threshold_fn \in NamedThetas THEN "threshold_fn"
    ELSE IF rupture_policy \notin {"None", "user_policy"} THEN "rupture_policy"
    ELSE IF CallDelta > ExpectedTheta + call.noise
              \/ (rupture_policy = "user_policy"
                     /\ CallDelta = ExpectedTheta + call.noise)
         THEN IF config = RaisingHookConfig THEN "hook" ELSE "none"
         ELSE IF realign_fn = "realign_custom_template"
              THEN "realign_fn" ELSE "none"

\* C26: if an injected threshold_fn, rupture_policy, realign_fn or collapse
\* hook raises during receive, the error reaches the caller and V, E,
\* step_index, history and collapse type are exactly as before the call: no
\* partial update and no snapshot appended.
C26_RaiseLeavesEngineUntouched ==
    /\ []((call.op = "receive" /\ RaisingCallable # "none")
             => call.raised # "none")
    /\ [][(call'.op = "receive" /\ call'.raised # "none")
            => UNCHANGED <<V, E, time, history, collapse_type>>]_vars

C26_Witness ==
    /\ call.op = "receive"
    /\ call.raised = "RuntimeError"
    /\ RaisingCallable = "hook"
    /\ Len(history) = 2
    /\ E > 0

\* C27: with initial and reset memory >= 0, c >= 0 and no collapse hook,
\* memory is >= 0 in every reachable state, does not decrease across a
\* non-rupture step, and decreases only on a ruptured step or a reset.
C27_MemoryMonotoneBetweenRuptures ==
    /\ [](~HasHook => E >= 0)
    /\ [][(~HasHook /\ call'.op = "receive" /\ call'.raised = "none"
              /\ ~history'[Len(history')].ruptured) => E' >= E]_vars
    /\ [][(~HasHook /\ E' < E)
            => \/ call'.op = "reset"
               \/ /\ call'.op = "receive"
                  /\ call'.raised = "none"
                  /\ history'[Len(history')].ruptured]_vars

C27_Witness ==
    /\ ~HasHook
    /\ ReceiveDone
    /\ Len(history) = 3
    /\ ~history[1].ruptured
    /\ history[2].ruptured
    /\ ~Last.ruptured
    /\ E > call.E_prev
    /\ call.E_prev = 0
    /\ Get(config, "c", DefaultC) > 0

\* An engine built with no injected function and no collapse hook, whose
\* default threshold draws no noise.
BareEngine ==
    /\ rupture_policy = "None"
    /\ realign_fn = "None"
    /\ threshold_fn = "None"
    /\ ~HasHook
    /\ Get(config, "sigma_theta", DefaultSigmaTheta) = 0

\* C28: with no injected functions and no collapse hook, sigma_theta = 0,
\* a >= 0, c >= 0 and initial memory >= 0, rupture_risk() called right after
\* a receive is strictly positive exactly when that step's snapshot has
\* ruptured = true, although it takes the threshold at the post-step memory.
C28_RiskSignMatchesRupture ==
    (direct.op = "rupture_risk" /\ ReceiveDone /\ BareEngine)
        => /\ direct.raised = "none"
           /\ direct.value.some
           /\ (direct.value.val > 0) = Last.ruptured

C28_Witness ==
    /\ direct.op = "rupture_risk"
    /\ ReceiveDone
    /\ BareEngine
    /\ Last.ruptured
    /\ call.E_prev > 0
    /\ direct.value.val > 0
    /\ direct.value.val # Last.delta - Last.theta

\* C29: a consensus policy and the coupled_field threshold use each peer's
\* memory as it is at the moment of the call, not as it was when the policy
\* was built, so an evaluation made after the peer's receive or reset uses
\* the updated memory; and no evaluation modifies the peer's V, E,
\* step_index or history.
C29_PeerMemoryReadAtCall ==
    [][(direct.op = "built" /\ direct'.op = "built"
            /\ Len(direct'.results) = Len(direct.results) + 1)
          => LET r == direct'.results[Len(direct'.results)]
             IN  /\ twin' = twin
                 /\ direct.kind = "consensus"
                       => r.value = (r.delta > 500 + Mul(500, twin.E))
                 /\ direct.kind = "coupled_field"
                       => r.value = DefaultTheta0 + Mul(DefaultC, twin.E)]_vars

C29_Witness ==
    /\ direct.op = "built"
    /\ direct.kind = "consensus"
    /\ Len(direct.results) = 2
    /\ direct.results[1].delta = direct.results[2].delta
    /\ direct.results[1].value # direct.results[2].value
    /\ twin.E # direct.peer_states[1].E
    /\ twin.time > 0

\* C30: after reset(V0, E0) an engine with prior history is
\* indistinguishable from an engine freshly constructed with the same V0, E0,
\* policies and config: right after the reset, and after every step of any
\* signal sequence replayed through both under deterministic policies, the
\* two hold identical histories, V, E, step_index and collapse type.
C30_ResetEqualsFresh ==
    (call.op \in {"reset", "replay"} /\ DeterministicEngine)
        => /\ V = twin.V
           /\ E = twin.E
           /\ time = twin.time
           /\ history = twin.history
           /\ collapse_type = twin.collapse_type

C30_Witness ==
    /\ call.op = "replay"
    /\ call.raised = "none"
    /\ DeterministicEngine
    /\ Len(history) = 2
    /\ history[1].ruptured
    /\ ~history[2].ruptured
    /\ collapse_type # "None"
    /\ history = twin.history
    /\ E = twin.E
    /\ E > 0
====
